---- MODULE Spec2Model ----
(***************************************************************************)
(* Model of training_tracker: the text normaliser, the identity resolver   *)
(* and the KPI computation of processing/completion_calc.py.               *)
(*                                                                         *)
(* Text is a sequence of characters, each character a one-element string   *)
(* (non-ASCII characters carry an ASCII name).  A nullable value is a      *)
(* sequence of length 0 (null / NaN / None) or 1 (the value).              *)
(***************************************************************************)
EXTENDS Integers, Sequences, FiniteSets, TLC

VARIABLES
    \* one call of a text helper of completion_calc.py
    call, arg, ret,
    \* one run over the three input tables
    pc, hr_df, roles_df, status_df,
    employee_kpis_df, required_detail_df, extra_detail_df,
    dept_kpis_df, org_kpis_df, company_kpis_df,
    \* the issues validate_data returned and the files written so far
    issues, written

textVars == <<call, arg, ret>>
inVars   == <<hr_df, roles_df, status_df>>
outVars  == <<employee_kpis_df, required_detail_df, extra_detail_df,
              dept_kpis_df, org_kpis_df, company_kpis_df>>
vars     == <<call, arg, ret, pc, hr_df, roles_df, status_df,
              employee_kpis_df, required_detail_df, extra_detail_df,
              dept_kpis_df, org_kpis_df, company_kpis_df, issues, written>>

(***************************************************************************)
(* Nullable values and small helpers                                       *)
(***************************************************************************)
NULL == <<>>
Some(v) == <<v>>
IsNull(x) == x = <<>>
NotNull(x) == x # <<>>
Val(x) == x[1]

Min2(a, b) == IF a <= b THEN a ELSE b

Range(s) == {s[i] : i \in 1..Len(s)}

RECURSIVE Concat(_)
Concat(ss) == IF ss = <<>> THEN <<>> ELSE Head(ss) \o Concat(Tail(ss))

\* all sequences over S of length at most n
SeqUpTo(S, n) == UNION {[1..k -> S] : k \in 0..n}

(***************************************************************************)
(* Characters                                                              *)
(***************************************************************************)
UpperSeq == <<"A", "B", "C", "D", "E", "F", "G", "H", "I", "J", "K", "L", "M",
             "N", "O", "P", "Q", "R", "S", "T", "U", "V", "W", "X", "Y", "Z">>
LowerSeq == <<"a", "b", "c", "d", "e", "f", "g", "h", "i", "j", "k", "l", "m",
             "n", "o", "p", "q", "r", "s", "t", "u", "v", "w", "x", "y", "z">>
UpperLetters == Range(UpperSeq)
Digits == {"0", "1", "2", "3", "4", "5", "6", "7", "8", "9"}
\* what str.strip() and the regex class \s take for white space
WhiteSpace == {" ", "\t"}

\* str.upper(), one character at a time
UpperOfLower == [c \in Range(LowerSeq) |-> UpperSeq[CHOOSE i \in 1..26 : LowerSeq[i] = c]]

UpperChar(c) ==
    IF c \in DOMAIN UpperOfLower THEN UpperOfLower[c]
    ELSE CASE c = "e_acute" -> "E_ACUTE"
           [] c = "i_acute" -> "I_ACUTE"
           [] OTHER -> c

\* unicodedata.normalize("NFD", .), one character at a time
NfdChar(c) ==
    CASE c = "E_ACUTE" -> <<"E", "COMBINING_ACUTE">>
      [] c = "e_acute" -> <<"e", "COMBINING_ACUTE">>
      [] c = "I_ACUTE" -> <<"I", "COMBINING_ACUTE">>
      [] c = "i_acute" -> <<"i", "COMBINING_ACUTE">>
      [] OTHER -> <<c>>

\* unicodedata.category(ch) = "Mn"
IsMn(c) == c = "COMBINING_ACUTE"

\* the characters the regex [^A-Z0-9 ,] leaves alone
KeptChars == UpperLetters \cup Digits \cup {" ", ","}

Kept(c) == c \in KeptChars

(***************************************************************************)
(* _normalize_text                                                         *)
(***************************************************************************)
RECURSIVE LStrip(_)
LStrip(s) == IF s # <<>> /\ Head(s) \in WhiteSpace THEN LStrip(Tail(s)) ELSE s

RECURSIVE RStrip(_)
RStrip(s) ==
    IF s # <<>> /\ s[Len(s)] \in WhiteSpace THEN RStrip(SubSeq(s, 1, Len(s) - 1)) ELSE s

\* str.strip()
Strip(s) == RStrip(LStrip(s))

Upper(s) == [i \in 1..Len(s) |-> UpperChar(s[i])]

StripAccents(s) ==
    SelectSeq(Concat([i \in 1..Len(s) |-> NfdChar(s[i])]), LAMBDA ch : ~IsMn(ch))

\* re.sub(r"[^A-Z0-9 ,]", " ", s)
ReplaceOthers(s) == [i \in 1..Len(s) |-> IF Kept(s[i]) THEN s[i] ELSE " "]

\* re.sub(r"\s+", " ", s)
RECURSIVE CollapseSpaces(_)
CollapseSpaces(s) ==
    IF s = <<>> THEN <<>>
    ELSE IF Head(s) \in WhiteSpace
         THEN <<" ">> \o CollapseSpaces(LStrip(Tail(s)))
         ELSE <<Head(s)>> \o CollapseSpaces(Tail(s))

\* Python's None
None == <<"None">>

\* the last strip() is left out
_normalize_text_no_last_strip(s) ==
    IF s = None THEN <<>>
    ELSE CollapseSpaces(ReplaceOthers(StripAccents(Upper(Strip(s)))))

_normalize_text(s) ==
    IF s = None THEN <<>>
    ELSE Strip(CollapseSpaces(ReplaceOthers(StripAccents(Upper(Strip(s))))))

(***************************************************************************)
(* _user_key_from_user_name, _candidate_user_keys_from_full_name, _is_yes  *)
(***************************************************************************)
RECURSIVE IndexOf(_, _, _)
\* position of the first ch in s at or after i, 0 when there is none
IndexOf(s, ch, i) ==
    IF i > Len(s) THEN 0 ELSE IF s[i] = ch THEN i ELSE IndexOf(s, ch, i + 1)

\* str.split() with the characters of seps as separators: the non-empty maximal
\* runs of other characters, in order
RECURSIVE SplitOn(_, _, _)
SplitOn(s, seps, cur) ==
    IF s = <<>> THEN (IF cur = <<>> THEN <<>> ELSE <<cur>>)
    ELSE IF Head(s) \in seps
         THEN (IF cur = <<>> THEN <<>> ELSE <<cur>>) \o SplitOn(Tail(s), seps, <<>>)
         ELSE SplitOn(Tail(s), seps, cur \o <<Head(s)>>)

\* " ".join(tokens)
RECURSIVE JoinSp(_)
JoinSp(tokens) ==
    IF tokens = <<>> THEN <<>>
    ELSE IF Len(tokens) = 1 THEN tokens[1]
    ELSE tokens[1] \o <<" ">> \o JoinSp(Tail(tokens))

\* a name without a comma is split at its first space, as if written
\* "GIVEN SURNAME"
_user_key_from_user_name_space(user_name) ==
    LET s == _normalize_text(user_name)
        k == IndexOf(s, ",", 1)
        b == IndexOf(s, " ", 1)
    IN  IF k > 0
        THEN Strip(SubSeq(s, 1, k - 1)) \o <<",", " ">> \o Strip(SubSeq(s, k + 1, Len(s)))
        ELSE IF b > 0
        THEN SubSeq(s, 1, b - 1) \o <<",", " ">> \o SubSeq(s, b + 1, Len(s))
        ELSE s

_user_key_from_user_name(user_name) ==
    LET s == _normalize_text(user_name)
        k == IndexOf(s, ",", 1)
    IN  IF k > 0
        THEN Strip(SubSeq(s, 1, k - 1)) \o <<",", " ">> \o Strip(SubSeq(s, k + 1, Len(s)))
        ELSE s

max_given_tokens == 3

\* no cap on the number of given-name tokens
max_l_uncapped(n) == n - 1

\* max_l for a name of n tokens
max_l(n) == Min2(max_given_tokens, n - 1)

CandidateTokens(full_name) ==
    LET s == _normalize_text(full_name)
        replaced == [i \in 1..Len(s) |-> IF s[i] = "," THEN " " ELSE s[i]]
    IN  SplitOn(replaced, WhiteSpace, <<>>)

\* the keys in the order the generator yields them
_candidate_user_keys_from_full_name(full_name) ==
    LET tokens == CandidateTokens(full_name)
        n == Len(tokens)
        key(l) ==
            LET surn == Strip(JoinSp(SubSeq(tokens, 1, n - l)))
                given == Strip(JoinSp(SubSeq(tokens, n - l + 1, n)))
            IN  IF surn # <<>> /\ given # <<>>
                THEN <<given \o <<",", " ">> \o surn>> ELSE <<>>
    IN  IF n < 2 THEN <<>>
        ELSE Concat([l \in 1..max_l(n) |-> key(l)])

YesWords == {<<"Y", "E", "S">>, <<"Y">>, <<"T", "R", "U", "E">>, <<"1">>,
             <<"S", "I">>, <<"S", "I_ACUTE">>}

_is_yes(v) == _normalize_text(v) \in YesWords

(***************************************************************************)
(* compute_employee_kpis.  A table is a sequence of rows, a row a record.  *)
(* The columns head_of_department and curriculum_title are carried through *)
(* unchanged by the code and are left out.                                 *)
(***************************************************************************)
Bar == <<"|">>

\* hr_df["__employee_key"] of one roster row
EmployeeKey(r) ==
    _normalize_text(r.full_name) \o Bar \o _normalize_text(r.org_code) \o Bar
        \o _normalize_text(r.org_desc) \o Bar \o _normalize_text(r.job_title)

\* the roster after the astype(str).str.strip() pass, with its two added columns
HrPrepared(hr) ==
    [i \in 1..Len(hr) |->
        LET r == [full_name |-> Strip(hr[i].full_name), job_title |-> Strip(hr[i].job_title),
                  org_code |-> Strip(hr[i].org_code), org_desc |-> Strip(hr[i].org_desc)]
        IN  [full_name |-> r.full_name, job_title |-> r.job_title,
             org_code |-> r.org_code, org_desc |-> r.org_desc,
             org_desc_norm |-> _normalize_text(r.org_desc),
             employee_key |-> EmployeeKey(r),
             candidates |-> Range(_candidate_user_keys_from_full_name(r.full_name))]]

\* key_to_emp.get(k, set()) for k = <<candidate key, normalized org_desc>>; the
\* candidate keys of every roster row are the row's field candidates
key_to_emp(hrP, k) ==
    { hrP[i].employee_key : i \in
        { j \in 1..Len(hrP) : hrP[j].org_desc_norm = k[2] /\ k[1] \in hrP[j].candidates } }

\* a tie resolves to one of the tied employees
resolve_emp_key_tie(hrP, user_name, org_desc) ==
    LET k == <<_user_key_from_user_name(user_name), _normalize_text(org_desc)>>
        s == key_to_emp(hrP, k)
    IN  IF Cardinality(s) >= 1 THEN Some(CHOOSE e \in s : TRUE) ELSE NULL

\* a tie resolves to the tied employee that comes first in the roster
resolve_emp_key_first(hrP, user_name, org_desc) ==
    LET k == <<_user_key_from_user_name(user_name), _normalize_text(org_desc)>>
        rows == { j \in 1..Len(hrP) :
                    hrP[j].org_desc_norm = k[2] /\ k[1] \in hrP[j].candidates }
    IN  IF rows = {} THEN NULL
        ELSE Some(hrP[CHOOSE j \in rows : \A i \in rows : j <= i].employee_key)

resolve_emp_key(hrP, user_name, org_desc) ==
    LET k == <<_user_key_from_user_name(user_name), _normalize_text(org_desc)>>
        s == key_to_emp(hrP, k)
    IN  IF Cardinality(s) = 1 THEN Some(CHOOSE e \in s : TRUE) ELSE NULL

\* status_df after lines 106-163: stripped text columns, the resolved employee
\* key, the completed flag, days_remaining cleared on completed rows, and the
\* row's own curriculum_done
StatusPrepared(hrP, status) ==
    [i \in 1..Len(status) |->
        LET user_name == Strip(status[i].user_name)
            org_desc == Strip(status[i].org_desc)
            completed == _is_yes(Strip(status[i].curriculum_complete))
            days == IF completed THEN NULL ELSE status[i].days_remaining
        IN  [user_name |-> user_name, org_desc |-> org_desc,
             curriculum_id |-> Strip(status[i].curriculum_id),
             employee_key |-> resolve_emp_key(hrP, user_name, org_desc),
             curriculum_completed |-> completed,
             days_remaining |-> days,
             curriculum_done |-> completed \/ (~completed /\ NotNull(days) /\ Val(days) >= 0)]]

\* roles_df after the astype(str).str.strip() pass
RolesPrepared(roles) ==
    [i \in 1..Len(roles) |->
        [org_code |-> Strip(roles[i].org_code), org_desc |-> Strip(roles[i].org_desc),
         job_title |-> Strip(roles[i].job_title),
         curriculum_id |-> Strip(roles[i].curriculum_id),
         is_mandatory |-> roles[i].is_mandatory]]

\* required: the left merge of the roster with the requirement rows on
\* (org_code, org_desc, job_title), rows without a requirement dropped
Required(hrP, rolesP) ==
    Concat([i \in 1..Len(hrP) |->
        LET match == SelectSeq(rolesP, LAMBDA q :
                        /\ q.org_code = hrP[i].org_code
                        /\ q.org_desc = hrP[i].org_desc
                        /\ q.job_title = hrP[i].job_title)
        IN  [j \in 1..Len(match) |->
                [full_name |-> hrP[i].full_name, job_title |-> hrP[i].job_title,
                 org_code |-> hrP[i].org_code, org_desc |-> hrP[i].org_desc,
                 employee_key |-> hrP[i].employee_key,
                 curriculum_id |-> match[j].curriculum_id,
                 is_mandatory |-> match[j].is_mandatory]]])

\* the largest value wins
MinOf_max(S) == CHOOSE m \in S : \A x \in S : m >= x

\* min of a non-empty set of integers
MinOf(S) == CHOOSE m \in S : \A x \in S : m <= x

\* status_subset: one row per (employee key, curriculum id) of the resolved
\* status rows; completed = max, days_remaining = min ignoring NaN
StatusSubset(stP) ==
    LET resolved == SelectSeq(stP, LAMBDA r : NotNull(r.employee_key))
        groups == { <<Val(resolved[i].employee_key), resolved[i].curriculum_id>> :
                        i \in 1..Len(resolved) }
    IN  { LET rows == SelectSeq(resolved, LAMBDA r :
                          Val(r.employee_key) = g[1] /\ r.curriculum_id = g[2])
              days == { Val(rows[i].days_remaining) :
                          i \in {j \in 1..Len(rows) : NotNull(rows[j].days_remaining)} }
          IN  [employee_key |-> g[1], curriculum_id |-> g[2],
               curriculum_completed |-> \E i \in 1..Len(rows) : rows[i].curriculum_completed,
               days_remaining |-> IF days = {} THEN NULL ELSE Some(MinOf(days))]
        : g \in groups }

\* the rows of status_subset the merge on (__employee_key, curriculum_id) pairs
\* with the requirement row q; the curriculum id is ignored
MatchStatus_key_only(q, subset) == { g \in subset : g.employee_key = q.employee_key }

MatchStatus(q, subset) ==
    { g \in subset : g.employee_key = q.employee_key /\ g.curriculum_id = q.curriculum_id }

\* zero days remaining counts as overdue
RowDone_gt(is_assigned, completed, days) ==
    completed \/ (is_assigned /\ ~completed /\ NotNull(days) /\ Val(days) > 0)

\* req_with_status["curriculum_done"]
RowDone(is_assigned, completed, days) ==
    completed \/ (is_assigned /\ ~completed /\ NotNull(days) /\ Val(days) >= 0)

\* req_with_status: required left-merged with status_subset, plus is_assigned
\* and curriculum_done
ReqWithStatus(required, subset) ==
    [i \in 1..Len(required) |->
        LET q == required[i]
            hit == MatchStatus(q, subset)
            is_assigned == hit # {}
            completed == IF is_assigned THEN (CHOOSE g \in hit : TRUE).curriculum_completed
                         ELSE FALSE
            days == IF is_assigned THEN (CHOOSE g \in hit : TRUE).days_remaining ELSE NULL
        IN  [full_name |-> q.full_name, job_title |-> q.job_title,
             org_code |-> q.org_code, org_desc |-> q.org_desc,
             employee_key |-> q.employee_key,
             curriculum_id |-> q.curriculum_id, is_mandatory |-> q.is_mandatory,
             is_assigned |-> is_assigned,
             curriculum_completed |-> completed,
             days_remaining |-> days,
             curriculum_done |-> RowDone(is_assigned, completed, days)]]

\* completion_pct as the exact fraction num/den
Pct(completed, required) == [num |-> 100 * completed, den |-> required]

\* every unassigned row is counted, mandatory or not
UnassignedMandatory_all(mine) == Len(SelectSeq(mine, LAMBDA r : ~r.is_assigned))

\* unassigned: the mandatory rows of one employee without a status record
UnassignedMandatory(mine) == Len(SelectSeq(mine, LAMBDA r : r.is_mandatory /\ ~r.is_assigned))

\* agg_req: one row per employee key of req_with_status
AggReq(rws) ==
    { LET mine == SelectSeq(rws, LAMBDA r : r.employee_key = e)
          required_count == Cardinality({mine[i].curriculum_id : i \in 1..Len(mine)})
          completed_required_count == Len(SelectSeq(mine, LAMBDA r : r.curriculum_completed))
          done_required_count == Len(SelectSeq(mine, LAMBDA r : r.curriculum_done))
          missing_required_count == required_count - completed_required_count
          has_requirements == required_count > 0
      IN  [employee_key |-> e,
           required_count |-> required_count,
           completed_required_count |-> completed_required_count,
           done_required_count |-> done_required_count,
           unassigned_mandatory_count |-> UnassignedMandatory(mine),
           missing_required_count |-> missing_required_count,
           completion_pct |-> IF required_count > 0
                              THEN Some(Pct(completed_required_count, required_count))
                              ELSE NULL,
           full_compliance_flag |-> has_requirements /\ missing_required_count = 0,
           full_done_flag |-> has_requirements /\ done_required_count = required_count]
      : e \in {rws[i].employee_key : i \in 1..Len(rws)} }

\* required_keys: the (employee key, curriculum id) pairs of required
required_keys(required) ==
    { <<required[i].employee_key, required[i].curriculum_id>> : i \in 1..Len(required) }

_is_extra(row, keys) == <<Val(row.employee_key), row.curriculum_id>> \notin keys

\* extra_detail_df: the completed, resolved status rows that are extra, merged
\* with the roster on the employee key.  org_desc is the status row's column (the
\* roster's is suffixed "_hr" by the merge and not selected).  employee_key is
\* not a column of the output; it is kept here to tell whose row it is.
ExtraDetail(hrP, stP, required) ==
    LET status_completed ==
            SelectSeq(stP, LAMBDA r : r.curriculum_completed /\ NotNull(r.employee_key))
        keys == required_keys(required)
        extra == SelectSeq(status_completed, LAMBDA r : _is_extra(r, keys))
    IN  Concat([i \in 1..Len(extra) |->
            LET emp == SelectSeq(hrP, LAMBDA h : h.employee_key = Val(extra[i].employee_key))
            IN  [j \in 1..Len(emp) |->
                    [full_name |-> emp[j].full_name, job_title |-> emp[j].job_title,
                     org_code |-> emp[j].org_code, org_desc |-> extra[i].org_desc,
                     employee_key |-> emp[j].employee_key,
                     curriculum_id |-> extra[i].curriculum_id,
                     is_mandatory |-> FALSE,
                     curriculum_completed |-> extra[i].curriculum_completed,
                     days_remaining |-> extra[i].days_remaining,
                     curriculum_done |-> extra[i].curriculum_done]]])

\* extra_completed_count of one roster row: nunique(curriculum_id) of the
\* extra_detail group with the row's (full_name, org_code, org_desc, job_title)
ExtraCompletedCount(h, extra) ==
    Cardinality({ extra[i].curriculum_id : i \in
        { j \in 1..Len(extra) :
            /\ extra[j].full_name = h.full_name /\ extra[j].org_code = h.org_code
            /\ extra[j].org_desc = h.org_desc /\ extra[j].job_title = h.job_title } })

\* the fill of completion_pct is 0, as for the counts
NoAggRow_pct0(key) ==
    [employee_key |-> key, required_count |-> 0, completed_required_count |-> 0,
     done_required_count |-> 0, unassigned_mandatory_count |-> 0,
     missing_required_count |-> 0, completion_pct |-> Some(Pct(0, 1)),
     full_compliance_flag |-> FALSE, full_done_flag |-> FALSE]

\* what the left merge with agg_req and the fillna calls leave for an employee
\* key that agg_req does not have
NoAggRow(key) ==
    [employee_key |-> key, required_count |-> 0, completed_required_count |-> 0,
     done_required_count |-> 0, unassigned_mandatory_count |-> 0,
     missing_required_count |-> 0, completion_pct |-> NULL,
     full_compliance_flag |-> FALSE, full_done_flag |-> FALSE]

\* employee_kpis_df: base_emp left-merged with agg_req, zeros filled in, then
\* left-merged with the extra counts.  employee_key is not an output column.
EmployeeKpis(hrP, agg, extra) ==
    [i \in 1..Len(hrP) |->
        LET h == hrP[i]
            hit == { x \in agg : x.employee_key = h.employee_key }
            a == IF hit # {} THEN CHOOSE x \in hit : TRUE ELSE NoAggRow(h.employee_key)
        IN  [full_name |-> h.full_name, job_title |-> h.job_title,
             org_code |-> h.org_code, org_desc |-> h.org_desc,
             employee_key |-> h.employee_key,
             required_count |-> a.required_count,
             completed_required_count |-> a.completed_required_count,
             done_required_count |-> a.done_required_count,
             missing_required_count |-> a.missing_required_count,
             unassigned_mandatory_count |-> a.unassigned_mandatory_count,
             has_requirements |-> a.required_count > 0,
             completion_pct |-> a.completion_pct,
             full_compliance_flag |-> a.full_compliance_flag,
             full_done_flag |-> a.full_done_flag,
             extra_completed_count |-> ExtraCompletedCount(h, extra)]]

\* steps 5-9 and the return: the three outputs from req_with_status and the
\* extra rows
DetailAndKpis(hrP, rws, extra) ==
    [employee_kpis_df |-> EmployeeKpis(hrP, AggReq(rws), extra),
     required_detail_df |-> rws,
     extra_detail_df |-> extra]

\* steps 4 and 8: req_with_status and the extra rows from the prepared status
\* rows and required
FromPrepared(hrP, stP, required) ==
    DetailAndKpis(hrP, ReqWithStatus(required, StatusSubset(stP)),
                  ExtraDetail(hrP, stP, required))

\* steps 2 and 3: the status rows resolved against the prepared roster, and
\* required
FromRoster(hrP, roles, status) ==
    FromPrepared(hrP, StatusPrepared(hrP, status), Required(hrP, RolesPrepared(roles)))

compute_employee_kpis(hr, roles, status) == FromRoster(HrPrepared(hr), roles, status)

(***************************************************************************)
(* _add_completion_segment and the roll-ups                                *)
(***************************************************************************)
\* the boundaries belong to the bucket below
seg_exclusive(x) ==
    IF IsNull(x) THEN NULL
    ELSE IF Val(x).num > 90 * Val(x).den THEN Some(">=90%")
    ELSE IF Val(x).num > 70 * Val(x).den THEN Some("70-89%")
    ELSE Some("<70%")

\* seg(x) of _add_completion_segment on a completion_pct; the middle label is
\* written with an en dash in the source and with a hyphen here
seg(x) ==
    IF IsNull(x) THEN NULL
    ELSE IF Val(x).num >= 90 * Val(x).den THEN Some(">=90%")
    ELSE IF Val(x).num >= 70 * Val(x).den THEN Some("70-89%")
    ELSE Some("<70%")

\* sum of a sequence of fractions, as a fraction
RECURSIVE FracSum(_)
FracSum(fs) ==
    IF fs = <<>> THEN [num |-> 0, den |-> 1]
    ELSE LET rest == FracSum(Tail(fs))
         IN  [num |-> Head(fs).num * rest.den + rest.num * Head(fs).den,
              den |-> Head(fs).den * rest.den]

FracEq(a, b) == a.num * b.den = b.num * a.den

\* Series.mean() with skipna: NaN when no value is set
MeanPct(rows) ==
    LET set == SelectSeq(rows, LAMBDA r : NotNull(r.completion_pct))
        total == FracSum([i \in 1..Len(set) |-> Val(set[i].completion_pct)])
    IN  IF set = <<>> THEN NULL
        ELSE Some([num |-> total.num, den |-> total.den * Len(set)])

\* one row of department_kpis / organization_kpis.  seg_counts has a row for the
\* group only when some employee of the group has a segment; the left merge
\* leaves the three counts NaN otherwise.
GroupRow(key, rows) ==
    LET with_seg == SelectSeq(rows, LAMBDA r : NotNull(seg(r.completion_pct)))
        count(label) ==
            IF with_seg = <<>> THEN NULL
            ELSE Some(Len(SelectSeq(with_seg, LAMBDA r : Val(seg(r.completion_pct)) = label)))
        with_req == Len(SelectSeq(rows, LAMBDA r : r.has_requirements))
        full == Len(SelectSeq(rows, LAMBDA r : r.full_compliance_flag))
    IN  [key |-> key,
         employees_count |-> Len(rows),
         employees_with_requirements |-> with_req,
         employees_full_compliance |-> full,
         avg_completion_pct |-> MeanPct(rows),
         seg_70_89 |-> count("70-89%"),
         seg_lt_70 |-> count("<70%"),
         seg_ge_90 |-> count(">=90%"),
         full_compliance_rate |-> IF with_req > 0 THEN Some([num |-> full, den |-> with_req])
                                  ELSE NULL]

\* the rows of the roll-up tables are kept as a set: groupby sorts them by key
compute_department_kpis(emp) ==
    { GroupRow(k, SelectSeq(emp, LAMBDA r : <<r.org_code, r.org_desc>> = k))
        : k \in { <<emp[i].org_code, emp[i].org_desc>> : i \in 1..Len(emp) } }

compute_organization_kpis(emp) ==
    { GroupRow(k, SelectSeq(emp, LAMBDA r : <<r.org_code>> = k))
        : k \in { <<emp[i].org_code>> : i \in 1..Len(emp) } }

compute_company_kpis(emp, required_detail) ==
    LET with_req == Len(SelectSeq(emp, LAMBDA r : r.has_requirements))
        full == Len(SelectSeq(emp, LAMBDA r : r.full_compliance_flag))
        total_required == Len(required_detail)
        total_completed == Len(SelectSeq(required_detail, LAMBDA r : r.curriculum_completed))
    IN  <<[total_employees |-> Len(emp),
           employees_with_requirements |-> with_req,
           employees_full_compliance |-> full,
           avg_completion_pct |-> IF with_req > 0 THEN MeanPct(emp) ELSE NULL,
           company_full_compliance_rate |->
               IF with_req > 0 THEN Some([num |-> full, den |-> with_req]) ELSE NULL,
           total_required_curricula |-> total_required,
           total_completed_required |-> total_completed,
           curricula_completion_rate |->
               IF total_required > 0
               THEN Some([num |-> total_completed, den |-> total_required]) ELSE NULL]>>

(***************************************************************************)
(* validate_data, on tables that have every expected column (the loaders   *)
(* raise otherwise)                                                        *)
(***************************************************************************)
\* s.head(10)
Head10(s) == SubSeq(s, 1, Min2(10, Len(s)))

\* the values of a sequence of non-null nullable values
Values(s) == [i \in 1..Len(s) |-> Val(s[i])]

\* Series.unique(): first occurrences, in order
Unique(s) ==
    Values(SelectSeq([i \in 1..Len(s) |-> IF \E j \in 1..(i - 1) : s[j] = s[i]
                                          THEN NULL ELSE Some(s[i])],
                     LAMBDA x : NotNull(x)))

\* the columns validate_data needs of each table
hr_needed == {"full_name", "job_title", "org_code", "org_desc", "head_of_department"}
roles_needed == {"org_code", "org_desc", "job_title", "curriculum_id", "curriculum_title"}
status_needed == {"user_name", "org_desc", "curriculum_id", "curriculum_title",
                  "curriculum_complete", "days_remaining"}

\* the column names in the order sorted() gives them
ColumnOrder ==
    <<"curriculum_complete", "curriculum_id", "curriculum_title", "days_remaining",
      "full_name", "head_of_department", "job_title", "org_code", "org_desc", "user_name">>

\* every needed column is listed as missing
SortedMissing_needed(needed, columns) == SelectSeq(ColumnOrder, LAMBDA c : c \in needed)

\* sorted(list(needed - set(df.columns)))
SortedMissing(needed, columns) == SelectSeq(ColumnOrder, LAMBDA c : c \in needed \ columns)

\* the *_MISSING_COLUMNS issue of one table, if it lacks a column
MissingColumnsIssue(code, missing) ==
    IF missing # <<>>
    THEN <<[level |-> "ERROR", code |-> code, details |-> [missing |-> missing]]>>
    ELSE <<>>

\* only a key equal to the one of the row just before counts as duplicated
Duplicated_adjacent(hr_keys) ==
    Values(SelectSeq([i \in 1..Len(hr_keys) |->
                         IF i > 1 /\ hr_keys[i - 1] = hr_keys[i]
                         THEN Some(hr_keys[i]) ELSE NULL], LAMBDA x : NotNull(x)))

\* hr_keys[hr_keys.duplicated()]: every occurrence of a key after its first
Duplicated(hr_keys) ==
    Values(SelectSeq([i \in 1..Len(hr_keys) |->
                         IF \E j \in 1..(i - 1) : hr_keys[j] = hr_keys[i]
                         THEN Some(hr_keys[i]) ELSE NULL], LAMBDA x : NotNull(x)))

\* the HR_DUPLICATE_EMPLOYEE_KEY issue for dup, the duplicated keys
DuplicateKeyIssueOf(dup) ==
    IF dup # <<>>
    THEN <<[level |-> "ERROR", code |-> "HR_DUPLICATE_EMPLOYEE_KEY",
            details |-> [duplicate_keys_sample |-> Head10(dup), count |-> Len(dup)]]>>
    ELSE <<>>

DuplicateKeyIssue(hr) ==
    DuplicateKeyIssueOf(Unique(Duplicated([i \in 1..Len(hr) |-> EmployeeKey(hr[i])])))

\* (org_code, org_desc, job_title) of a roster or requirement row
Triple(r) == <<r.org_code, r.org_desc, r.job_title>>

\* the issue is raised as an error
NoRequirementsIssueOf_error(no_req) ==
    IF no_req # <<>>
    THEN <<[level |-> "ERROR", code |-> "HR_EMPLOYEE_WITHOUT_ROLE_REQUIREMENTS",
            details |-> [sample |-> Head10(no_req)]]>>
    ELSE <<>>

\* the HR_EMPLOYEE_WITHOUT_ROLE_REQUIREMENTS issue for no_req, the left_only rows
NoRequirementsIssueOf(no_req) ==
    IF no_req # <<>>
    THEN <<[level |-> "WARNING", code |-> "HR_EMPLOYEE_WITHOUT_ROLE_REQUIREMENTS",
            details |-> [sample |-> Head10(no_req)]]>>
    ELSE <<>>

NoRequirementsIssue(hr, roles) ==
    NoRequirementsIssueOf(
        SelectSeq(Unique([i \in 1..Len(hr) |-> Triple(hr[i])]),
                  LAMBDA p : ~\E j \in 1..Len(roles) : Triple(roles[j]) = p))

\* the STATUS_ORG_DESC_NOT_IN_HR issue for bad_org_desc, the status rows without
\* a roster row of their normalized org_desc
BadOrgDescIssueOf(bad_org_desc) ==
    IF bad_org_desc # <<>>
    THEN <<[level |-> "WARNING", code |-> "STATUS_ORG_DESC_NOT_IN_HR",
            details |-> [sample |-> Head10([i \in 1..Len(bad_org_desc) |->
                            <<bad_org_desc[i].user_name, bad_org_desc[i].org_desc>>])]]>>
    ELSE <<>>

BadOrgDescIssue(hr, status) ==
    BadOrgDescIssueOf(
        SelectSeq(status, LAMBDA r :
            _normalize_text(r.org_desc)
                \notin { _normalize_text(hr[i].org_desc) : i \in 1..Len(hr) }))

\* validate_data on tables given as [columns, rows]: the roster's missing columns
\* end the call, the status table's end it after the requirement table's check
validate_data_df(hr, roles, status) ==
    IF ~(hr_needed \subseteq hr.columns)
    THEN MissingColumnsIssue("HR_MISSING_COLUMNS", SortedMissing(hr_needed, hr.columns))
    ELSE DuplicateKeyIssue(hr.rows)
         \o MissingColumnsIssue("ROLES_MISSING_COLUMNS",
                                SortedMissing(roles_needed, roles.columns))
         \o (IF ~(status_needed \subseteq status.columns)
             THEN MissingColumnsIssue("STATUS_MISSING_COLUMNS",
                                      SortedMissing(status_needed, status.columns))
             ELSE (IF roles_needed \subseteq roles.columns
                   THEN NoRequirementsIssue(hr.rows, roles.rows)
                   ELSE <<>>)
                  \o BadOrgDescIssue(hr.rows, status.rows))

\* a table as the loaders return it: every needed column is there
Loaded(needed, rows) == [columns |-> needed, rows |-> rows]

validate_data(hr, roles, status) ==
    validate_data_df(Loaded(hr_needed, hr), Loaded(roles_needed, roles),
                     Loaded(status_needed, status))

(***************************************************************************)
(* The input tables of a run                                               *)
(***************************************************************************)
\* rows of the three input tables together
MaxRows == 4

S_J == <<"S", " ", "J">>
S_M_J == <<"S", " ", "M", " ", "J">>
FullNames == {S_J, S_M_J}

\* (org_code, org_desc, job_title)
Positions == { <<<<"A">>, <<"U">>, <<"T">>>>, <<<<"A">>, <<"U">>, <<"N">>>>,
               <<<<"A">>, <<"V">>, <<"T">>>> }

HrRows ==
    { [full_name |-> n, org_code |-> p[1], org_desc |-> p[2], job_title |-> p[3]]
        : n \in FullNames, p \in Positions }

RoleRow(code, desc, job, cur, mandatory) ==
    [org_code |-> code, org_desc |-> desc, job_title |-> job,
     curriculum_id |-> cur, is_mandatory |-> mandatory]

RolesRows ==
    { RoleRow(<<"A">>, <<"U">>, <<"T">>, <<"1">>, TRUE),
      RoleRow(<<"A">>, <<"U">>, <<"T">>, <<"2">>, TRUE),
      RoleRow(<<"A">>, <<"U">>, <<"T">>, <<"2">>, FALSE),
      RoleRow(<<"A">>, <<"U">>, <<"T">>, <<"1">>, FALSE),
      RoleRow(<<"A">>, <<"U">>, <<"N">>, <<"1">>, TRUE) }

Yes == <<"Y", "e", "s">>
No == <<"N", "o">>
J_S == <<"J", ",", " ", "S">>
m_j_s == <<"m", " ", "j", ",", "s">>
J_S_plain == <<"J", " ", "S">>

StatusRow(user, desc, cur, complete, days) ==
    [user_name |-> user, org_desc |-> desc, curriculum_id |-> cur,
     curriculum_complete |-> complete, days_remaining |-> days]

StatusRows ==
    { StatusRow(J_S, <<"U">>, <<"1">>, Yes, NULL),
      StatusRow(J_S, <<"U">>, <<"1">>, No, Some(0)),
      StatusRow(J_S, <<"U">>, <<"1">>, No, Some(-1)),
      StatusRow(J_S, <<"u">>, <<"2">>, Yes, NULL),
      StatusRow(J_S, <<"U">>, <<"2">>, Yes, Some(3)),
      StatusRow(m_j_s, <<"U">>, <<"1">>, Yes, NULL),
      StatusRow(m_j_s, <<"U">>, <<"2">>, No, NULL),
      StatusRow(J_S_plain, <<"U">>, <<"1">>, Yes, NULL) }

Curricula == { <<"1">>, <<"2">> }

(***************************************************************************)
(* build_outputs                                                           *)
(***************************************************************************)
Init ==
    /\ call = "none" /\ arg = <<>> /\ ret = <<>>
    /\ pc = "start"
    /\ hr_df = <<>> /\ roles_df = <<>> /\ status_df = <<>>
    /\ employee_kpis_df = <<>> /\ required_detail_df = <<>> /\ extra_detail_df = <<>>
    /\ dept_kpis_df = {} /\ org_kpis_df = {} /\ company_kpis_df = <<>>
    /\ issues = <<>> /\ written = {}

\* _load_all: the three tables, the requirement and status rows filtered to the
\* curriculum ids of the curriculum list
LoadAll ==
    /\ pc = "start"
    /\ \E nh \in 1..MaxRows :
       \E nr \in 0..(MaxRows - nh) :
       \E ns \in 1..(MaxRows - nh - nr) :
       \E hr \in [1..nh -> HrRows], roles \in [1..nr -> RolesRows],
          status \in [1..ns -> StatusRows], allowed \in SUBSET Curricula :
            /\ hr_df' = hr
            /\ roles_df' = SelectSeq(roles, LAMBDA r : Strip(r.curriculum_id) \in allowed)
            /\ status_df' = SelectSeq(status, LAMBDA r : Strip(r.curriculum_id) \in allowed)
    /\ pc' = "loaded"
    /\ UNCHANGED <<textVars, outVars, issues, written>>

ValidateData ==
    /\ pc = "loaded"
    /\ issues' = validate_data(hr_df, roles_df, status_df)
    /\ pc' = "validated"
    /\ UNCHANGED <<textVars, inVars, outVars, written>>

\* no issue counts as an error
has_errors_never == FALSE

has_errors == \E i \in 1..Len(issues) : issues[i].level = "ERROR"

\* the has_errors branch: validation_issues.csv, then sys.exit(1)
ExitOnErrors ==
    /\ pc = "validated"
    /\ has_errors
    /\ written' = written \cup {"validation_issues.csv"}
    /\ pc' = "exit_1"
    /\ UNCHANGED <<textVars, inVars, outVars, issues>>

ComputeEmployeeKpis ==
    /\ pc = "validated"
    /\ ~has_errors
    /\ \E out \in {compute_employee_kpis(hr_df, roles_df, status_df)} :
           /\ employee_kpis_df' = out.employee_kpis_df
           /\ required_detail_df' = out.required_detail_df
           /\ extra_detail_df' = out.extra_detail_df
    /\ pc' = "employee_kpis"
    /\ UNCHANGED <<textVars, inVars, dept_kpis_df, org_kpis_df, company_kpis_df,
                   issues, written>>

ComputeDepartmentKpis ==
    /\ pc = "employee_kpis"
    /\ dept_kpis_df' = compute_department_kpis(employee_kpis_df)
    /\ pc' = "department_kpis"
    /\ UNCHANGED <<textVars, inVars, employee_kpis_df, required_detail_df, extra_detail_df,
                   org_kpis_df, company_kpis_df, issues, written>>

ComputeOrganizationKpis ==
    /\ pc = "department_kpis"
    /\ org_kpis_df' = compute_organization_kpis(employee_kpis_df)
    /\ pc' = "organization_kpis"
    /\ UNCHANGED <<textVars, inVars, employee_kpis_df, required_detail_df, extra_detail_df,
                   dept_kpis_df, company_kpis_df, issues, written>>

ComputeCompanyKpis ==
    /\ pc = "organization_kpis"
    /\ company_kpis_df' = compute_company_kpis(employee_kpis_df, required_detail_df)
    /\ pc' = "company_kpis"
    /\ UNCHANGED <<textVars, inVars, employee_kpis_df, required_detail_df, extra_detail_df,
                   dept_kpis_df, org_kpis_df, issues, written>>

\* the parameters of export_all
export_all_params ==
    {"output_dir", "employee_kpis_df", "mandatory_detail_df", "optional_detail_df",
     "dept_kpis_df", "company_kpis_df", "org_kpis_df", "validation_issues"}

\* the keywords build_outputs calls export_all with
export_all_keywords ==
    {"output_dir", "employee_kpis_df", "required_detail_df", "extra_detail_df",
     "dept_kpis_df", "company_kpis_df", "org_kpis_df", "validation_issues"}

\* the sheets export_all writes to training_tracker_outputs.xlsx
export_all(validation_issues) ==
    {"employee_kpis", "employee_mandatory_detail", "employee_optional_detail",
     "department_kpis", "organization_kpis", "company_kpis"}
        \cup (IF validation_issues # <<>> THEN {"validation_issues"} ELSE {})

\* the call of export_all: a keyword that is no parameter of the function raises
\* TypeError before the function body runs
ExportAll ==
    /\ pc = "company_kpis"
    /\ IF export_all_keywords \subseteq export_all_params
       THEN /\ written' = written \cup export_all(issues)
            /\ pc' = "exported"
       ELSE /\ written' = written
            /\ pc' = "TypeError"
    /\ UNCHANGED <<textVars, inVars, outVars, issues>>

Next ==
    \/ LoadAll
    \/ ValidateData
    \/ ExitOnErrors
    \/ ComputeEmployeeKpis
    \/ ComputeDepartmentKpis
    \/ ComputeOrganizationKpis
    \/ ComputeCompanyKpis
    \/ ExportAll

Spec == Init /\ [][Next]_vars

(***************************************************************************)
(* Calls of the text helpers on one input each                             *)
(***************************************************************************)
MaxNameLen == 5

NameAlphabet == {"S", "j", " ", ",", "-"}

SANTANA_MENDOZA_JORGE ==
    <<"S", "A", "N", "T", "A", "N", "A", " ", "M", "E", "N", "D", "O", "Z", "A", " ",
      "J", "O", "R", "G", "E">>

\* names of up to six tokens, with and without commas
LongNames ==
    { SANTANA_MENDOZA_JORGE,
      <<"S", " ", "M", " ", "J", " ", "N">>,
      <<"S", " ", "M", " ", "J", " ", "N", " ", "T">>,
      <<"s", " ", "m", ",", "j", " ", "n", " ", "t", " ", "y">>,
      <<"M", "e_acute", "N", "D", "E", "Z", ",", "J", "O", "S", "e_acute">> }

\* None, and text with tabs, accents, digits and characters that are not kept
OddTexts ==
    { None,
      <<"\t", "e_acute", " ", " ", "COMBINING_ACUTE", "1", "\t">>,
      <<"-", "I_ACUTE", ".", ",", " ", "i_acute", "-">> }

TextInputs == SeqUpTo(NameAlphabet, MaxNameLen) \cup LongNames \cup OddTexts

\* the tables of a run, while only text helpers are called
NoRun ==
    /\ pc = "idle"
    /\ hr_df = <<>> /\ roles_df = <<>> /\ status_df = <<>>
    /\ employee_kpis_df = <<>> /\ required_detail_df = <<>> /\ extra_detail_df = <<>>
    /\ dept_kpis_df = {} /\ org_kpis_df = {} /\ company_kpis_df = <<>>
    /\ issues = <<>> /\ written = {}

runVars == <<pc, hr_df, roles_df, status_df, employee_kpis_df, required_detail_df,
             extra_detail_df, dept_kpis_df, org_kpis_df, company_kpis_df, issues, written>>

InitText ==
    /\ call = "none"
    /\ arg \in TextInputs
    /\ ret = <<>>
    /\ NoRun

CallNormalizeText ==
    /\ call = "none"
    /\ call' = "_normalize_text"
    /\ ret' = _normalize_text(arg)
    /\ UNCHANGED <<arg, runVars>>

CallUserKey ==
    /\ call = "none"
    /\ call' = "_user_key_from_user_name"
    /\ ret' = _user_key_from_user_name(arg)
    /\ UNCHANGED <<arg, runVars>>

CallCandidateUserKeys ==
    /\ call = "none"
    /\ call' = "_candidate_user_keys_from_full_name"
    /\ ret' = _candidate_user_keys_from_full_name(arg)
    /\ UNCHANGED <<arg, runVars>>

NextText == CallNormalizeText \/ CallUserKey \/ CallCandidateUserKeys

SpecText == InitText /\ [][NextText]_vars

(***************************************************************************)
(* C5                                                                      *)
(***************************************************************************)
\* the keys "GIVEN, SURNAME" for L = 1..min(3, n-1) over the tokens toks
SplitKeys(toks) ==
    LET n == Len(toks)
    IN  { JoinSp([i \in 1..L |-> toks[n - L + i]]) \o <<",", " ">>
            \o JoinSp([i \in 1..(n - L) |-> toks[i]]) : L \in 1..Min2(3, n - 1) }

JORGE_SANTANA_MENDOZA ==
    <<"J", "O", "R", "G", "E", ",", " ", "S", "A", "N", "T", "A", "N", "A", " ",
      "M", "E", "N", "D", "O", "Z", "A">>

MENDOZA_JORGE_SANTANA ==
    <<"M", "E", "N", "D", "O", "Z", "A", " ", "J", "O", "R", "G", "E", ",", " ",
      "S", "A", "N", "T", "A", "N", "A">>

C5_Example ==
    arg = SANTANA_MENDOZA_JORGE =>
        Range(ret) = {JORGE_SANTANA_MENDOZA, MENDOZA_JORGE_SANTANA}

\* C5 as stated: the candidate keys of a name are exactly the keys "GIVEN, SURNAME"
\* for L = 1..min(3, n-1) over the n whitespace-separated tokens of the normalized
\* name, none when n < 2 and never more than 3.
C5_AsStated ==
    call = "_candidate_user_keys_from_full_name" =>
        LET toks == SplitOn(_normalize_text(arg), WhiteSpace, <<>>)
        IN  /\ Range(ret) = (IF Len(toks) < 2 THEN {} ELSE SplitKeys(toks))
            /\ Len(ret) <= 3
            /\ C5_Example

\* C5, amended: the same over the tokens obtained by splitting the normalized name
\* at white space and at commas; every key is yielded once.
C5_CandidateKeys ==
    call = "_candidate_user_keys_from_full_name" =>
        LET toks == SplitOn(_normalize_text(arg), WhiteSpace \cup {","}, <<>>)
        IN  /\ Range(ret) = (IF Len(toks) < 2 THEN {} ELSE SplitKeys(toks))
            /\ Len(ret) = Cardinality(Range(ret))
            /\ Len(ret) <= 3
            /\ C5_Example

\* a name of more than four tokens, one of them set off by a comma, has been split
C5_Witness ==
    /\ call = "_candidate_user_keys_from_full_name"
    /\ Len(SplitOn(_normalize_text(arg), WhiteSpace \cup {","}, <<>>)) > 4
    /\ IndexOf(_normalize_text(arg), ",", 1) > 0
    /\ Len(ret) = 3

(***************************************************************************)
(* Claims about compute_employee_kpis, read in the state it returns to     *)
(***************************************************************************)
Computed == pc = "employee_kpis"

Rows(t) == 1..Len(t)

\* the status rows of the run that resolve to employee key e for curriculum c
ResolvingRecords(e, c) ==
    LET hrP == HrPrepared(hr_df)
    IN  { i \in Rows(status_df) :
            /\ resolve_emp_key(hrP, Strip(status_df[i].user_name),
                               Strip(status_df[i].org_desc)) = Some(e)
            /\ Strip(status_df[i].curriculum_id) = c }

\* C1: in every required-detail row, days_remaining is null whenever
\* curriculum_completed is true or is_assigned is false.
C1_DaysRemainingCleared ==
    Computed =>
        \A i \in Rows(required_detail_df) :
            LET r == required_detail_df[i]
            IN  (r.curriculum_completed \/ ~r.is_assigned) => IsNull(r.days_remaining)

\* the bucket of the roster index for a status row: the employee keys of the
\* roster rows with the row's normalized org_desc whose name has the row's
\* normalized user key among its splits
Bucket(st) ==
    { EmployeeKey(hr_df[i]) : i \in
        { j \in Rows(hr_df) :
            /\ _normalize_text(hr_df[j].org_desc) = _normalize_text(st.org_desc)
            /\ LET toks == SplitOn(_normalize_text(hr_df[j].full_name),
                                   WhiteSpace \cup {","}, <<>>)
               IN  /\ Len(toks) >= 2
                   /\ _user_key_from_user_name(st.user_name) \in SplitKeys(toks) } }

\* C2: a status record counts for an employee exactly when its bucket holds that
\* one employee key: a requirement row is assigned iff some record whose bucket
\* is its employee alone names its curriculum, and the extra-detail rows are
\* exactly those of the completed records with a one-key bucket whose curriculum
\* that employee does not require (none for a bucket of zero or several keys).
C2_ResolvedIffOneKey ==
    Computed =>
        /\ \A i \in Rows(required_detail_df) :
            LET q == required_detail_df[i]
            IN  q.is_assigned <=>
                    \E j \in Rows(status_df) :
                        /\ Bucket(status_df[j]) = {q.employee_key}
                        /\ Strip(status_df[j].curriculum_id) = q.curriculum_id
        /\ { <<extra_detail_df[i].employee_key, extra_detail_df[i].curriculum_id,
                extra_detail_df[i].org_desc>> : i \in Rows(extra_detail_df) }
           = { <<CHOOSE e \in Bucket(status_df[j]) : TRUE, Strip(status_df[j].curriculum_id),
                 Strip(status_df[j].org_desc)>> : j \in
                 { k \in Rows(status_df) :
                     /\ Cardinality(Bucket(status_df[k])) = 1
                     /\ _is_yes(status_df[k].curriculum_complete)
                     /\ ~\E i \in Rows(required_detail_df) :
                            /\ {required_detail_df[i].employee_key} = Bucket(status_df[k])
                            /\ required_detail_df[i].curriculum_id
                                   = Strip(status_df[k].curriculum_id) } }

\* a record whose bucket holds two employee keys, next to a requirement of one of
\* the two for the record's curriculum
C2_Witness ==
    /\ Computed
    /\ \E j \in Rows(status_df) :
        /\ Cardinality(Bucket(status_df[j])) = 2
        /\ \E i \in Rows(required_detail_df) :
            /\ required_detail_df[i].employee_key \in Bucket(status_df[j])
            /\ required_detail_df[i].curriculum_id = Strip(status_df[j].curriculum_id)
            /\ ~required_detail_df[i].is_assigned

\* the required-detail rows of one employee key
DetailOf(e) == SelectSeq(required_detail_df, LAMBDA r : r.employee_key = e)

\* C3: completion_pct counts mandatory curricula only: for an employee with a
\* mandatory requirement it is 100 * (completed mandatory curricula) / (distinct
\* mandatory curricula), whatever the optional rows.
C3_MandatoryOnlyPct ==
    Computed =>
        \A i \in Rows(employee_kpis_df) :
            LET e == employee_kpis_df[i]
                mine == DetailOf(e.employee_key)
                mandatory == { mine[j].curriculum_id : j \in
                                 { k \in Rows(mine) : mine[k].is_mandatory } }
                completed == { mine[j].curriculum_id : j \in
                                 { k \in Rows(mine) : mine[k].is_mandatory
                                                      /\ mine[k].curriculum_completed } }
            IN  mandatory # {} =>
                    /\ NotNull(e.completion_pct)
                    /\ FracEq(Val(e.completion_pct),
                              Pct(Cardinality(completed), Cardinality(mandatory)))

\* C4: a required-detail row is done if it is completed; otherwise exactly when it
\* is assigned with days_remaining present and >= 0 (0 is on time, -1 is not).
C4_DoneRule ==
    Computed =>
        \A i \in Rows(required_detail_df) :
            LET r == required_detail_df[i]
            IN  /\ r.curriculum_completed => r.curriculum_done
                /\ ~r.curriculum_completed =>
                      (r.curriculum_done <=>
                          (r.is_assigned /\ NotNull(r.days_remaining)
                             /\ Val(r.days_remaining) >= 0))
                /\ (~r.curriculum_completed /\ r.is_assigned
                      /\ r.days_remaining = Some(0)) => r.curriculum_done
                /\ (~r.curriculum_completed /\ r.is_assigned
                      /\ r.days_remaining = Some(-1)) => ~r.curriculum_done

\* a pending assigned row with zero days remaining that is done
C4_Witness ==
    /\ Computed
    /\ \E i \in Rows(required_detail_df) :
        LET r == required_detail_df[i]
        IN  r.is_assigned /\ ~r.curriculum_completed /\ r.days_remaining = Some(0)
              /\ r.curriculum_done

\* roster row i has a requirement row on (org_code, org_desc, job_title)
HasRequirementRow(i) ==
    \E j \in Rows(roles_df) :
        /\ Strip(roles_df[j].org_code) = Strip(hr_df[i].org_code)
        /\ Strip(roles_df[j].org_desc) = Strip(hr_df[i].org_desc)
        /\ Strip(roles_df[j].job_title) = Strip(hr_df[i].job_title)

\* C6: employee_kpis has one row per roster row, in roster order, whether or not
\* a requirement row matches it; a roster row without one has required_count 0,
\* has_requirements false, completion_pct null and full_compliance_flag false.
C6_EveryEmployeeEmitted ==
    Computed =>
        /\ Len(employee_kpis_df) = Len(hr_df)
        /\ \A i \in Rows(hr_df) :
            LET e == employee_kpis_df[i]
            IN  /\ e.full_name = Strip(hr_df[i].full_name)
                /\ e.org_code = Strip(hr_df[i].org_code)
                /\ e.org_desc = Strip(hr_df[i].org_desc)
                /\ e.job_title = Strip(hr_df[i].job_title)
                /\ ~HasRequirementRow(i) =>
                      /\ e.required_count = 0
                      /\ ~e.has_requirements
                      /\ IsNull(e.completion_pct)
                      /\ ~e.full_compliance_flag

\* a roster of one employee with requirements and one without
C6_Witness ==
    /\ Computed
    /\ \E i, j \in Rows(hr_df) :
        /\ HasRequirementRow(i) /\ employee_kpis_df[i].required_count > 0
        /\ ~HasRequirementRow(j) /\ IsNull(employee_kpis_df[j].completion_pct)

\* C7: a mandatory requirement without a status record resolving to its employee
\* and curriculum is unassigned, has no days_remaining and is not done, and
\* unassigned_mandatory_count is the number of such rows of the employee.
C7_UnassignedMandatory ==
    Computed =>
        /\ \A i \in Rows(required_detail_df) :
            LET r == required_detail_df[i]
            IN  (r.is_mandatory /\ ResolvingRecords(r.employee_key, r.curriculum_id) = {}) =>
                    ~r.is_assigned /\ IsNull(r.days_remaining) /\ ~r.curriculum_done
        /\ \A i \in Rows(employee_kpis_df) :
            LET e == employee_kpis_df[i]
                mine == DetailOf(e.employee_key)
            IN  e.unassigned_mandatory_count =
                    Cardinality({ k \in Rows(mine) :
                        /\ mine[k].is_mandatory
                        /\ ResolvingRecords(e.employee_key, mine[k].curriculum_id) = {} })

\* an employee with an unassigned mandatory requirement, an unassigned optional
\* one, and a status record that resolves to the employee
C7_Witness ==
    /\ Computed
    /\ \E i \in Rows(employee_kpis_df) :
        LET e == employee_kpis_df[i]
            mine == DetailOf(e.employee_key)
        IN  /\ e.unassigned_mandatory_count = 1
            /\ \E k \in Rows(mine) : ~mine[k].is_mandatory /\ ~mine[k].is_assigned
            /\ \E j \in Rows(status_df) : Bucket(status_df[j]) = {e.employee_key}

\* the compliance columns of an employee_kpis row
Compliance(e) ==
    <<e.required_count, e.completed_required_count, e.done_required_count,
      e.missing_required_count, e.completion_pct, e.full_compliance_flag, e.full_done_flag>>

\* the employee key a status record resolves to against the roster hrP, when it
\* is completed and names a curriculum outside that employee's requirement rows;
\* null otherwise
ExtraRecordKey(hrP, st) ==
    LET k == resolve_emp_key(hrP, Strip(st.user_name), Strip(st.org_desc))
    IN  IF /\ NotNull(k)
           /\ _is_yes(st.curriculum_complete)
           /\ \A i \in Rows(required_detail_df) :
                 ~(required_detail_df[i].employee_key = Val(k)
                     /\ required_detail_df[i].curriculum_id = Strip(st.curriculum_id))
        THEN k ELSE NULL

\* C8: extra completions never affect compliance: with one more extra record in
\* the status table the compliance columns of the employee it resolves to are
\* what they are without it; and no extra-detail row names a curriculum that is a
\* requirement, optional or mandatory, of its employee.
C8_ExtraNeverCounts ==
    Computed =>
        /\ LET hrP == HrPrepared(hr_df)
           IN  \A st \in StatusRows :
                 LET k == ExtraRecordKey(hrP, st)
                 IN  NotNull(k) =>
                       LET with == compute_employee_kpis(hr_df, roles_df,
                                       Append(status_df, st)).employee_kpis_df
                       IN  \A i \in Rows(employee_kpis_df) :
                             employee_kpis_df[i].employee_key = Val(k) =>
                                 Compliance(with[i]) = Compliance(employee_kpis_df[i])
        /\ \A i \in Rows(extra_detail_df) : \A j \in Rows(required_detail_df) :
              ~(required_detail_df[j].employee_key = extra_detail_df[i].employee_key
                  /\ required_detail_df[j].curriculum_id = extra_detail_df[i].curriculum_id)

\* an employee with a requirement not yet completed, an extra completion in the
\* status table and a completed optional requirement
C8_Witness ==
    /\ Computed
    /\ \E i \in Rows(extra_detail_df) : \E j, k \in Rows(required_detail_df) :
        /\ required_detail_df[j].employee_key = extra_detail_df[i].employee_key
        /\ ~required_detail_df[j].curriculum_completed
        /\ required_detail_df[k].employee_key = extra_detail_df[i].employee_key
    /\ \E st \in StatusRows : NotNull(ExtraRecordKey(HrPrepared(hr_df), st))

\* C9: extra_completed_count of every employee is the number of distinct
\* curriculum ids among the extra-detail rows of the records resolved to that
\* employee.
C9_ExtraCountMatchesDetail ==
    Computed =>
        \A i \in Rows(employee_kpis_df) :
            employee_kpis_df[i].extra_completed_count =
                Cardinality({ extra_detail_df[j].curriculum_id : j \in
                    { k \in Rows(extra_detail_df) :
                        extra_detail_df[k].employee_key = employee_kpis_df[i].employee_key } })

\* the employee_kpis rows of a roll-up group (org_code, org_desc) or (org_code)
Members(key) ==
    SelectSeq(employee_kpis_df, LAMBDA e :
        /\ e.org_code = key[1]
        /\ Len(key) = 2 => e.org_desc = key[2])

\* C10: in every department and organization row the three bucket counts sum to
\* the number of employees of the group with a completion_pct (0 when there is
\* none), and avg_completion_pct is the mean over those employees only.
C10_BucketsAndMean ==
    pc = "organization_kpis" =>
        \A g \in dept_kpis_df \cup org_kpis_df :
            LET rated == SelectSeq(Members(g.key), LAMBDA e : NotNull(e.completion_pct))
                total == FracSum([i \in Rows(rated) |-> Val(rated[i].completion_pct)])
            IN  /\ NotNull(g.seg_lt_70) /\ NotNull(g.seg_70_89) /\ NotNull(g.seg_ge_90)
                /\ Val(g.seg_lt_70) + Val(g.seg_70_89) + Val(g.seg_ge_90) = Len(rated)
                /\ IF rated = <<>> THEN IsNull(g.avg_completion_pct)
                   ELSE /\ NotNull(g.avg_completion_pct)
                        /\ FracEq(Val(g.avg_completion_pct),
                                  [num |-> total.num, den |-> total.den * Len(rated)])

(***************************************************************************)
(* validate_data called on its own: tables that may lack columns, rosters  *)
(* with repeated canonical keys                                            *)
(***************************************************************************)
\* rows of the roster of a validate_data call; the other two tables have one less
MaxValRows == 2

\* distinct employees of the roster in which every employee is listed twice
MaxDupKeys == 12

s_j_accent == <<"s", " ", " ", "j", "COMBINING_ACUTE">>

ValHrRows ==
    { [full_name |-> S_J, org_code |-> <<"A">>, org_desc |-> <<"U">>, job_title |-> <<"T">>],
      [full_name |-> s_j_accent, org_code |-> <<"a">>, org_desc |-> <<"U">>,
       job_title |-> <<"T">>],
      [full_name |-> S_J, org_code |-> <<"A">>, org_desc |-> <<"V">>, job_title |-> <<"T">>] }

ValRolesRows ==
    { RoleRow(<<"A">>, <<"U">>, <<"T">>, <<"1">>, TRUE),
      RoleRow(<<"A">>, <<"V">>, <<"T">>, <<"1">>, TRUE) }

ValStatusRows ==
    { StatusRow(J_S, <<"u">>, <<"1">>, Yes, NULL),
      StatusRow(J_S, <<"W">>, <<"1">>, No, Some(0)) }

\* the roster of k employees S A, S B, ... each listed twice
Twice(k) ==
    [i \in 1..(2 * k) |->
        [full_name |-> <<"S", " ", UpperSeq[((i - 1) % k) + 1]>>, org_code |-> <<"A">>,
         org_desc |-> <<"U">>, job_title |-> <<"T">>]]

ValRosters == SeqUpTo(ValHrRows, MaxValRows) \cup { Twice(k) : k \in 9..MaxDupKeys }

\* a table with all its columns, without the first of two, or without both
ColumnChoices(needed, a, b) == { needed, needed \ {a}, needed \ {a, b} }

InitValidate ==
    /\ call = "none"
    /\ \E hc \in ColumnChoices(hr_needed, "head_of_department", "full_name"),
          rc \in ColumnChoices(roles_needed, "curriculum_title", "org_code"),
          sc \in ColumnChoices(status_needed, "days_remaining", "user_name"),
          hr \in ValRosters,
          roles \in SeqUpTo(ValRolesRows, MaxValRows - 1),
          status \in SeqUpTo(ValStatusRows, MaxValRows - 1) :
            arg = [hr |-> [columns |-> hc, rows |-> hr],
                   roles |-> [columns |-> rc, rows |-> roles],
                   status |-> [columns |-> sc, rows |-> status]]
    /\ ret = <<>>
    /\ NoRun

CallValidateData ==
    /\ call = "none"
    /\ call' = "validate_data"
    /\ ret' = validate_data_df(arg.hr, arg.roles, arg.status)
    /\ UNCHANGED <<arg, runVars>>

NextValidate == CallValidateData

SpecValidate == InitValidate /\ [][NextValidate]_vars

\* validate_data has returned ret for the tables of arg
Validated == call = "validate_data"

\* the issues of ret with the given code
IssuesOf(code) == SelectSeq(ret, LAMBDA x : x.code = code)

\* the canonical keys that two or more rows of the roster of arg share
SharedAmong(keys) ==
    { keys[i] : i \in { j \in DOMAIN keys :
                          \E k \in DOMAIN keys : k # j /\ keys[k] = keys[j] } }

SharedKeys ==
    SharedAmong([i \in Rows(arg.hr.rows) |-> EmployeeKey(arg.hr.rows[i])] \o <<>>)

\* the checks after the duplicate-key check have run: an issue for each of the
\* other two tables that lacks columns
RemainingChecksRan ==
    /\ (~(roles_needed \subseteq arg.roles.columns))
          <=> (Len(IssuesOf("ROLES_MISSING_COLUMNS")) = 1)
    /\ (~(status_needed \subseteq arg.status.columns))
          <=> (Len(IssuesOf("STATUS_MISSING_COLUMNS")) = 1)

\* C11 as stated: for a roster with all its columns, the duplicate-key issue is there
\* exactly when two rows share a canonical key, it is an ERROR, it lists the
\* shared keys, all of them, and the remaining checks run.
C11_AsStated ==
    (Validated /\ hr_needed \subseteq arg.hr.columns) =>
        \E shared \in {SharedKeys}, d \in {IssuesOf("HR_DUPLICATE_EMPLOYEE_KEY")} :
            /\ (shared = {}) <=> (d = <<>>)
            /\ shared # {} =>
                  /\ Len(d) = 1
                  /\ d[1].level = "ERROR"
                  /\ Range(d[1].details.duplicate_keys_sample) = shared
                  /\ RemainingChecksRan

\* C11: for a roster with all its columns, validate_data returns one ERROR issue
\* HR_DUPLICATE_EMPLOYEE_KEY exactly when two rows share a canonical key; the
\* issue gives the number of shared keys and lists them without repetition, the
\* first 10 only when there are more; the remaining checks still run.
C11_DuplicateKeys ==
    (Validated /\ hr_needed \subseteq arg.hr.columns) =>
        \E shared \in {SharedKeys}, d \in {IssuesOf("HR_DUPLICATE_EMPLOYEE_KEY")} :
            /\ (shared = {}) <=> (d = <<>>)
            /\ shared # {} =>
                  /\ Len(d) = 1
                  /\ d[1].level = "ERROR"
                  /\ d[1].details.count = Cardinality(shared)
                  /\ Range(d[1].details.duplicate_keys_sample) \subseteq shared
                  /\ Len(d[1].details.duplicate_keys_sample)
                        = Min2(10, Cardinality(shared))
                  /\ Cardinality(Range(d[1].details.duplicate_keys_sample))
                        = Len(d[1].details.duplicate_keys_sample)
                  /\ RemainingChecksRan

\* a roster of 11 employees each listed twice: 11 shared keys, 10 of them listed
C11_Witness ==
    /\ Validated
    /\ hr_needed \subseteq arg.hr.columns
    /\ Cardinality(SharedKeys) = 11
    /\ Len(IssuesOf("HR_DUPLICATE_EMPLOYEE_KEY")) = 1
    /\ IssuesOf("HR_DUPLICATE_EMPLOYEE_KEY")[1].details.count = 11
    /\ Len(IssuesOf("HR_DUPLICATE_EMPLOYEE_KEY")[1].details.duplicate_keys_sample) = 10

\* the missing-columns issue of a table is there, with exactly its missing columns
ReportsMissing(code, needed, columns) ==
    LET m == IssuesOf(code)
    IN  /\ Len(m) = 1
        /\ m[1].level = "ERROR"
        /\ Range(m[1].details.missing) = needed \ columns
        /\ Len(m[1].details.missing) = Cardinality(needed \ columns)

\* C12 as stated: every table that lacks a column has its ERROR issue with exactly
\* the missing columns, whichever other tables lack columns too.
C12_AsStated ==
    Validated =>
        /\ ~(hr_needed \subseteq arg.hr.columns) =>
              ReportsMissing("HR_MISSING_COLUMNS", hr_needed, arg.hr.columns)
        /\ ~(roles_needed \subseteq arg.roles.columns) =>
              ReportsMissing("ROLES_MISSING_COLUMNS", roles_needed, arg.roles.columns)
        /\ ~(status_needed \subseteq arg.status.columns) =>
              ReportsMissing("STATUS_MISSING_COLUMNS", status_needed, arg.status.columns)

\* C12: a roster that lacks a column gives the HR_MISSING_COLUMNS issue with exactly
\* its missing columns and nothing else, the other tables are not looked at; with
\* a complete roster, the requirement table and the status table each have their
\* issue, with exactly the missing columns, exactly when they lack a column.
C12_MissingColumns ==
    Validated =>
        IF ~(hr_needed \subseteq arg.hr.columns)
        THEN /\ Len(ret) = 1
             /\ ReportsMissing("HR_MISSING_COLUMNS", hr_needed, arg.hr.columns)
        ELSE /\ IssuesOf("HR_MISSING_COLUMNS") = <<>>
             /\ IF roles_needed \subseteq arg.roles.columns
                THEN IssuesOf("ROLES_MISSING_COLUMNS") = <<>>
                ELSE ReportsMissing("ROLES_MISSING_COLUMNS", roles_needed,
                                    arg.roles.columns)
             /\ IF status_needed \subseteq arg.status.columns
                THEN IssuesOf("STATUS_MISSING_COLUMNS") = <<>>
                ELSE ReportsMissing("STATUS_MISSING_COLUMNS", status_needed,
                                    arg.status.columns)

\* the requirement table lacks two columns and the status table one, in one call
C12_Witness ==
    /\ Validated
    /\ hr_needed \subseteq arg.hr.columns
    /\ Cardinality(roles_needed \ arg.roles.columns) = 2
    /\ Cardinality(status_needed \ arg.status.columns) = 1
    /\ Len(IssuesOf("ROLES_MISSING_COLUMNS")) = 1
    /\ Len(IssuesOf("STATUS_MISSING_COLUMNS")) = 1

(***************************************************************************)
(* Claims about the order of a build_outputs run                           *)
(***************************************************************************)
\* some issue validate_data returned has level ERROR
HasErrorIssue == \E i \in Rows(issues) : issues[i].level = "ERROR"

\* the positions of a run from the call of compute_employee_kpis on
AfterValidation ==
    {"employee_kpis", "department_kpis", "organization_kpis", "company_kpis",
     "exported", "TypeError"}

\* no KPI table has been computed
NothingComputed ==
    /\ employee_kpis_df = <<>> /\ required_detail_df = <<>> /\ extra_detail_df = <<>>
    /\ dept_kpis_df = {} /\ org_kpis_df = {} /\ company_kpis_df = <<>>

\* C13: compute_employee_kpis and export_all are called only in a run whose
\* validate_data has returned without an ERROR issue, the first right after the
\* validation and the second after the company KPIs; a run with an ERROR issue
\* goes from the validation to exit 1, writes validation_issues.csv and nothing
\* else, and has computed no KPI table.
C13_ValidationGate ==
    /\ [](pc \in AfterValidation => ~HasErrorIssue)
    /\ [](pc \in {"start", "loaded", "validated", "exit_1"} => NothingComputed)
    /\ [](pc = "exit_1" => HasErrorIssue /\ written = {"validation_issues.csv"})
    /\ [][ /\ pc' = "employee_kpis" => pc = "validated" /\ ~HasErrorIssue
           /\ pc' \in {"exported", "TypeError"} => pc = "company_kpis" /\ ~HasErrorIssue
           /\ (pc = "validated" /\ HasErrorIssue) => pc' = "exit_1" ]_vars

\* a run that validation stopped
C13_Witness ==
    /\ pc = "exit_1"
    /\ HasErrorIssue
    /\ written = {"validation_issues.csv"}
    /\ NothingComputed

\* C14: once build_outputs has called export_all, in a run without an ERROR
\* issue, the six tables are written, and validation_issues with them when there
\* are WARNING issues.
C14_ExportWritesTables ==
    (pc \in {"exported", "TypeError"} /\ ~HasErrorIssue) =>
        /\ pc = "exported"
        /\ {"employee_kpis", "employee_mandatory_detail", "employee_optional_detail",
            "department_kpis", "organization_kpis", "company_kpis"} \subseteq written
        /\ issues # <<>> => "validation_issues" \in written

(***************************************************************************)
(* Claims about the resolution of status records                           *)
(***************************************************************************)
\* the employee keys compute_employee_kpis gives the rows of status, in order
ResolvedKeys(hr, status) ==
    [j \in Rows(status) |-> StatusPrepared(HrPrepared(hr), status)[j].employee_key] \o <<>>

\* the rows of a table in the order p
Permuted(rows, p) == [i \in Rows(rows) |-> rows[p[i]]]

\* every status record gets the same key, or none, when the roster is reordered
SameUnderRosterOrder(keys) ==
    \A p \in Permutations(Rows(hr_df)) :
        ResolvedKeys(Permuted(hr_df, p), status_df) = keys

\* every status record keeps its key, or none, when the status rows are reordered
SameUnderStatusOrder(keys) ==
    \A q \in Permutations(Rows(status_df)) :
        ResolvedKeys(hr_df, Permuted(status_df, q)) = Permuted(keys, q)

\* C15: the employee key of every status record, or its being unresolved, depends
\* on the roster and status tables only: it is the same whatever the order of the
\* roster rows and whatever the order of the status rows.
C15_ResolutionOrderIndependent ==
    pc = "loaded" =>
        /\ SameUnderRosterOrder(ResolvedKeys(hr_df, status_df))
        /\ SameUnderStatusOrder(ResolvedKeys(hr_df, status_df))

\* two different roster rows tie on a status record, which stays unresolved in
\* both orders of the roster
C15_Witness ==
    /\ pc = "loaded"
    /\ Len(hr_df) = 2
    /\ hr_df[1] # hr_df[2]
    /\ \E j \in Rows(status_df) :
        /\ Cardinality(Bucket(status_df[j])) = 2
        /\ IsNull(ResolvedKeys(hr_df, status_df)[j])
        /\ IsNull(ResolvedKeys(<<hr_df[2], hr_df[1]>>, status_df)[j])

(***************************************************************************)
(* Claims about _normalize_text                                            *)
(***************************************************************************)
\* C16: _normalize_text returns a text for every input, None and the empty text
\* included; normalizing the result again gives the result; the result has only
\* characters of A-Z, 0-9, space and comma, no space at either end and no two
\* spaces in a row.
C16_NormalizeIdempotent ==
    call = "_normalize_text" =>
        /\ _normalize_text(ret) = ret
        /\ \A i \in Rows(ret) : ret[i] \in UpperLetters \cup Digits \cup {" ", ","}
        /\ ret # <<>> => (ret[1] # " " /\ ret[Len(ret)] # " ")
        /\ \A i \in 1..(Len(ret) - 1) : ~(ret[i] = " " /\ ret[i + 1] = " ")
        /\ arg \in {None, <<>>} => ret = <<>>

\* a text with tabs, accents, a digit and repeated spaces, normalized to "E 1"
C16_Witness ==
    /\ call = "_normalize_text"
    /\ arg = <<"\t", "e_acute", " ", " ", "COMBINING_ACUTE", "1", "\t">>
    /\ ret = <<"E", " ", "1">>

(***************************************************************************)
(* Claims about several status records of one (employee, curriculum) pair  *)
(***************************************************************************)
\* the status rows of the run whose bucket is employee key e alone, for
\* curriculum c
RecordsOf(e, c) ==
    { i \in Rows(status_df) :
        Bucket(status_df[i]) = {e} /\ Strip(status_df[i].curriculum_id) = c }

\* record i of the status table says the curriculum is complete
SaysComplete(i) == _is_yes(Strip(status_df[i].curriculum_complete))

\* days is the minimum of the set values, null when there is none
IsMinOf(days, values) ==
    IF values = {} THEN IsNull(days)
    ELSE /\ NotNull(days)
         /\ Val(days) \in values
         /\ \A v \in values : Val(days) <= v

\* C17 as stated: with several records for a pair, the pair's row is completed iff
\* one of the records is, and its days_remaining is the minimum of the
\* days_remaining values the records carry.
C17_AsStated ==
    Computed =>
        \A i \in Rows(required_detail_df) :
            \E recs \in {RecordsOf(required_detail_df[i].employee_key,
                                   required_detail_df[i].curriculum_id)} :
                Cardinality(recs) >= 2 =>
                    /\ required_detail_df[i].curriculum_completed
                          <=> \E j \in recs : SaysComplete(j)
                    /\ IsMinOf(required_detail_df[i].days_remaining,
                               { Val(status_df[j].days_remaining) : j \in
                                   { k \in recs : NotNull(status_df[k].days_remaining) } })

\* C17: with several records for a pair, the pair's row is completed iff one of
\* the records is, and its days_remaining is the minimum of the days_remaining
\* values carried by the records that are not complete (a complete record's
\* value is cleared before the records are combined), null when there is none.
C17_DedupAggregation ==
    Computed =>
        \A i \in Rows(required_detail_df) :
            \E recs \in {RecordsOf(required_detail_df[i].employee_key,
                                   required_detail_df[i].curriculum_id)} :
                Cardinality(recs) >= 2 =>
                    /\ required_detail_df[i].curriculum_completed
                          <=> \E j \in recs : SaysComplete(j)
                    /\ IsMinOf(required_detail_df[i].days_remaining,
                               { Val(status_df[j].days_remaining) : j \in
                                   { k \in recs : /\ NotNull(status_df[k].days_remaining)
                                                  /\ ~SaysComplete(k) } })

\* two records of one pair, neither complete, with 0 and -1 days remaining
C17_Witness ==
    /\ Computed
    /\ \E i \in Rows(required_detail_df) :
        \E recs \in {RecordsOf(required_detail_df[i].employee_key,
                               required_detail_df[i].curriculum_id)} :
            /\ Cardinality(recs) = 2
            /\ { status_df[j].days_remaining : j \in recs } = {Some(0), Some(-1)}
            /\ required_detail_df[i].days_remaining = Some(-1)
            /\ ~required_detail_df[i].curriculum_completed

(***************************************************************************)
(* Specification of seg alone, over the completion_pct values of           *)
(* compute_employee_kpis                                                   *)
(***************************************************************************)
MaxRequired == 10

\* completion_pct of an employee row: null without requirements, otherwise
\* 100.0 * completed_required_count / required_count; the completed count may
\* exceed the required count (see C20)
SegInputs ==
    {NULL} \cup { Some(Pct(c, r)) : c \in 0..MaxRequired, r \in 1..MaxRequired }

InitSeg ==
    /\ call = "none"
    /\ arg \in SegInputs
    /\ ret = <<>>
    /\ NoRun

CallSeg ==
    /\ call = "none"
    /\ call' = "seg"
    /\ ret' = seg(arg)
    /\ UNCHANGED <<arg, runVars>>

NextSeg == CallSeg

SpecSeg == InitSeg /\ [][NextSeg]_vars

\* the percentage arg, the fraction num/den, is at least n
AtLeast(n) == NotNull(arg) /\ Val(arg).num >= n * Val(arg).den

\* C18: the segment is ">=90%" iff completion_pct >= 90, "70-89%" iff
\* 70 <= completion_pct < 90, "<70%" iff completion_pct < 70, none iff
\* completion_pct is null; exactly 70 is in "70-89%", exactly 90 in ">=90%", and
\* every non-null completion_pct has exactly one segment.
C18_Segments ==
    call = "seg" =>
        /\ ret = Some(">=90%") <=> AtLeast(90)
        /\ ret = Some("70-89%") <=> (AtLeast(70) /\ ~AtLeast(90))
        /\ ret = Some("<70%") <=> (NotNull(arg) /\ ~AtLeast(70))
        /\ IsNull(ret) <=> IsNull(arg)
        /\ arg = Some(Pct(7, 10)) => ret = Some("70-89%")
        /\ arg = Some(Pct(9, 10)) => ret = Some(">=90%")
        /\ NotNull(arg) =>
              Cardinality({ l \in {">=90%", "70-89%", "<70%"} : ret = Some(l) }) = 1

\* seg has been applied to exactly 70 percent (7 of 10)
C18_Witness ==
    /\ call = "seg"
    /\ arg = Some(Pct(7, 10))
    /\ ret = Some("70-89%")

(***************************************************************************)
(* Claims about the warnings of validate_data in a build_outputs run       *)
(***************************************************************************)
\* the issues of the run with the given code
IssuesWith(code) == { i \in Rows(issues) : issues[i].code = code }

ReferentialCodes == {"HR_EMPLOYEE_WITHOUT_ROLE_REQUIREMENTS", "STATUS_ORG_DESC_NOT_IN_HR"}

\* some roster row's (org_code, org_desc, job_title) has no requirement row
UncoveredCombination ==
    \E i \in Rows(hr_df) :
        \A j \in Rows(roles_df) :
            \/ hr_df[i].org_code # roles_df[j].org_code
            \/ hr_df[i].org_desc # roles_df[j].org_desc
            \/ hr_df[i].job_title # roles_df[j].job_title

\* some status row's normalized org_desc is no roster row's
UnknownOrgDesc ==
    \E i \in Rows(status_df) :
        \A j \in Rows(hr_df) :
            _normalize_text(status_df[i].org_desc) # _normalize_text(hr_df[j].org_desc)

\* the run is past validate_data
ValidationReturned == pc \notin {"start", "loaded"}

OnlyReferentialIssues == \A i \in Rows(issues) : issues[i].code \in ReferentialCodes

\* the branch of build_outputs that computes the KPIs is taken: it is the one
\* without has_errors, and the computation that follows it is total
ProceedsToKpis == ~has_errors

\* C19: validate_data returns a WARNING, never an ERROR, with code
\* HR_EMPLOYEE_WITHOUT_ROLE_REQUIREMENTS exactly when some roster combination
\* (org_code, org_desc, job_title) has no requirement row, and one with code
\* STATUS_ORG_DESC_NOT_IN_HR exactly when some status row's normalized org_desc
\* is no roster row's; a build_outputs run whose only issues are these goes on
\* to compute the employee KPIs.
C19_WarningsDoNotBlock ==
    /\ [](ValidationReturned =>
            /\ IssuesWith("HR_EMPLOYEE_WITHOUT_ROLE_REQUIREMENTS") # {} <=> UncoveredCombination
            /\ IssuesWith("STATUS_ORG_DESC_NOT_IN_HR") # {} <=> UnknownOrgDesc
            /\ \A i \in Rows(issues) :
                  issues[i].code \in ReferentialCodes => issues[i].level = "WARNING")
    /\ []((pc = "validated" /\ OnlyReferentialIssues) => ProceedsToKpis)
    /\ [][(pc = "validated" /\ OnlyReferentialIssues) => pc' = "employee_kpis"]_vars

\* a run with both warnings, and nothing else, that has computed the employee
\* KPIs
C19_Witness ==
    /\ pc = "employee_kpis"
    /\ OnlyReferentialIssues
    /\ IssuesWith("HR_EMPLOYEE_WITHOUT_ROLE_REQUIREMENTS") # {}
    /\ IssuesWith("STATUS_ORG_DESC_NOT_IN_HR") # {}
    /\ employee_kpis_df # <<>>

(***************************************************************************)
(* Claim about the ranges of the per-employee counts                       *)
(***************************************************************************)
\* C20: in every employee row of compute_employee_kpis the completed count lies
\* between 0 and the required count, the missing count is not negative, and
\* completion_pct is null or between 0 and 100, also when the requirement table
\* lists a curriculum twice for one (org_code, org_desc, job_title).
C20_CountsInRange ==
    Computed =>
        \A i \in Rows(employee_kpis_df) :
            /\ 0 <= employee_kpis_df[i].completed_required_count
            /\ employee_kpis_df[i].completed_required_count
                  <= employee_kpis_df[i].required_count
            /\ employee_kpis_df[i].missing_required_count >= 0
            /\ NotNull(employee_kpis_df[i].completion_pct) =>
                  /\ Val(employee_kpis_df[i].completion_pct).num >= 0
                  /\ Val(employee_kpis_df[i].completion_pct).num
                        <= 100 * Val(employee_kpis_df[i].completion_pct).den

(***************************************************************************)
(* Specification of compute_employee_kpis alone, on tables that need not   *)
(* have passed validate_data                                               *)
(***************************************************************************)
MaxKpiRoster == 2
MaxKpiRoles == 3
MaxKpiStatus == 2

\* rosters of one position, a canonical key possibly twice
KpiHrRows ==
    { [full_name |-> n, org_code |-> <<"A">>, org_desc |-> <<"U">>, job_title |-> <<"T">>]
        : n \in FullNames }

KpiRosters == SeqUpTo(KpiHrRows, MaxKpiRoster) \ {<<>>}

KpiStatusRows ==
    { StatusRow(J_S, <<"U">>, <<"1">>, Yes, NULL),
      StatusRow(J_S, <<"U">>, <<"1">>, No, Some(0)),
      StatusRow(J_S, <<"U">>, <<"2">>, No, Some(0)),
      StatusRow(J_S, <<"U">>, <<"2">>, Yes, Some(3)) }

InitKpis ==
    /\ call = "none" /\ arg = <<>> /\ ret = <<>>
    /\ pc = "idle"
    /\ hr_df \in KpiRosters
    /\ roles_df \in SeqUpTo(RolesRows, MaxKpiRoles)
    /\ status_df \in SeqUpTo(KpiStatusRows, MaxKpiStatus)
    /\ employee_kpis_df = <<>> /\ required_detail_df = <<>> /\ extra_detail_df = <<>>
    /\ dept_kpis_df = {} /\ org_kpis_df = {} /\ company_kpis_df = <<>>
    /\ issues = <<>> /\ written = {}

CallComputeEmployeeKpis ==
    /\ call = "none"
    /\ call' = "compute_employee_kpis"
    /\ \E out \in {compute_employee_kpis(hr_df, roles_df, status_df)} :
           /\ employee_kpis_df' = out.employee_kpis_df
           /\ required_detail_df' = out.required_detail_df
           /\ extra_detail_df' = out.extra_detail_df
    /\ UNCHANGED <<arg, ret, pc, inVars, dept_kpis_df, org_kpis_df, company_kpis_df,
                   issues, written>>

NextKpis == CallComputeEmployeeKpis

SpecKpis == InitKpis /\ [][NextKpis]_vars

\* C21: for every employee row, full_compliance_flag implies that every
\* required-detail row of that employee is completed, and implies
\* full_done_flag, also when the requirement table repeats a curriculum.
C21_FullComplianceMeansAllCompleted ==
    call = "compute_employee_kpis" =>
        \A i \in Rows(employee_kpis_df) :
            employee_kpis_df[i].full_compliance_flag =>
                /\ \A k \in Rows(required_detail_df) :
                      required_detail_df[k].employee_key = employee_kpis_df[i].employee_key
                          => required_detail_df[k].curriculum_completed
                /\ employee_kpis_df[i].full_done_flag

(***************************************************************************)
(* Claim about status records whose user name has no comma                 *)
(***************************************************************************)
HasComma(s) == \E k \in 1..Len(s) : s[k] = ","

\* the user name of status row i, as compute_employee_kpis strips it
UserNameOf(i) == Strip(status_df[i].user_name)

\* the normalized user name of status row i has no comma
CommaLess(i) == ~HasComma(_normalize_text(UserNameOf(i)))

\* C22: a status record whose normalized user name has no comma is resolved to
\* no employee: every key of the roster index contains a comma, the record's
\* lookup key is its whole normalized name, without a comma, and no
\* required-detail row is assigned on account of such records alone.
C22_CommaLessNeverResolved ==
    pc # "start" =>
        /\ \A j \in Rows(hr_df) :
              \A key \in HrPrepared(hr_df)[j].candidates : HasComma(key)
        /\ \A i \in Rows(status_df) :
              CommaLess(i) =>
                  /\ _user_key_from_user_name(UserNameOf(i)) = _normalize_text(UserNameOf(i))
                  /\ IsNull(resolve_emp_key(HrPrepared(hr_df), UserNameOf(i),
                                            Strip(status_df[i].org_desc)))
        /\ Computed =>
              \A k \in Rows(required_detail_df) :
                  required_detail_df[k].is_assigned =>
                      \E i \in Rows(status_df) :
                          /\ ~CommaLess(i)
                          /\ Strip(status_df[i].curriculum_id)
                                = required_detail_df[k].curriculum_id

\* the record of "J S" for a curriculum required of the roster's "S J", in the
\* same organization: the requirement stays unassigned
C22_Witness ==
    /\ Computed
    /\ \E i \in Rows(status_df), j \in Rows(hr_df), k \in Rows(required_detail_df) :
          /\ status_df[i].user_name = J_S_plain
          /\ hr_df[j].full_name = S_J
          /\ _normalize_text(hr_df[j].org_desc) = _normalize_text(status_df[i].org_desc)
          /\ required_detail_df[k].employee_key = EmployeeKey(hr_df[j])
          /\ required_detail_df[k].curriculum_id = Strip(status_df[i].curriculum_id)
          /\ ~required_detail_df[k].is_assigned

====
